---- MODULE Spec2Model ----
(***************************************************************************)
(* News Scraper API (src/main.py): the snapshot cache get_db and the       *)
(* FastAPI handlers in front of it.                                        *)
(*                                                                         *)
(* Scheduling.  Every handler is an `async def` that never awaits, so one  *)
(* server process runs a handler, get_db included, from its first line to  *)
(* its response before it starts the next one.  Requests overlap only      *)
(* across server processes (workers).  Each worker has its own copy of the *)
(* module global last_fetch_time; all of them share the one snapshot file  *)
(* DB_CACHE_FILE.  A worker is therefore a sequential process whose steps  *)
(* are the statements of get_db that touch the clock, the network or the   *)
(* file, and the steps of different workers interleave freely.             *)
(*                                                                         *)
(* The snapshot file is a sequence of chunks, each tagged with the get_db  *)
(* call that wrote it (worker and current_time): open(..., 'wb') empties   *)
(* it, f.write fills it chunk by chunk at the writer's own offset.         *)
(***************************************************************************)
EXTENDS Integers, Sequences, FiniteSets

(* ---------------- bounds of the model ---------------- *)
\* number of clock advances explored
MaxTicks == 2
\* number of write steps one f.write(response.content) takes
NChunks == 2

(* ---------------- program constants ---------------- *)
CACHE_DURATION == 3600
\* time.time() advances by half a freshness window per tick
TickLen == CACHE_DURATION \div 2
\* time.time() when the first worker starts: far more than CACHE_DURATION
\* after the epoch, so that last_fetch_time = 0 is never fresh
StartTime == 2 * CACHE_DURATION
EndTime == StartTime + MaxTicks * TickLen

\* the server processes sharing DB_CACHE_FILE: two, the fewest that overlap
Worker == {1, 2}

Routes == {"root", "health", "articles", "latest", "sources", "stats", "by_source"}
DbRoutes == {"articles", "latest", "sources", "stats", "by_source"}
LimitRoutes == {"articles", "latest", "by_source"}
Methods == {"GET", "HEAD"}
\* limit values sent by clients; 0 stands in a request to a route without limit
LimitInputs == {0, 1, 101, 501, 1001}
\* source_name values sent by clients; "" on a route without source_name
SourceInputs == {"bbc", "cnn"}
\* rows of the news table per source in the remote database file
RowsOf(source) == IF source = "bbc" THEN 2 ELSE 0
TotalRows == RowsOf("bbc") + RowsOf("cnn")

\* Query(.., ge=1, le=N) of the three handlers that take limit
MaxLimit(route) ==
    CASE route = "articles" -> 1000
      [] route = "latest" -> 100
      [] route = "by_source" -> 500
      [] OTHER -> 0

InRange_Shared(route, limit) ==
    route \in LimitRoutes => (limit >= 1 /\ limit <= 1000)

\* FastAPI's validation of the declared query parameters, run before the handler
InRange(route, limit) ==
    route \in LimitRoutes => (limit >= 1 /\ limit <= MaxLimit(route))

Requests ==
    { [route |-> r, method |-> m, limit |-> l, source |-> s] :
        r \in Routes, m \in Methods, l \in LimitInputs, s \in SourceInputs \cup {""} }

\* a request as a client can send it to a route: limit and source_name only
\* where the route declares them
WellFormed(q) ==
    /\ (q.route \notin LimitRoutes => q.limit = 0)
    /\ (q.route = "by_source" <=> q.source # "")

NoReq == [route |-> "", method |-> "", limit |-> 0, source |-> ""]

\* a request the validation lets through to its handler
Accepted(q) == WellFormed(q) /\ InRange(q.route, q.limit)

\* a request whose handler goes on to get_db: a GET on a route that queries
CallsDb(q) == Accepted(q) /\ q.method = "GET" /\ q.route \in DbRoutes

(* get_db reads nothing of the request.  The interleavings of the workers  *)
(* are explored on Probes, one request for each way a handler answers;     *)
(* every request of Requests is explored on one worker (HttpSpec).         *)
Probes ==
    { q \in Requests :
        WellFormed(q) /\ q.route \in {"latest", "health"} /\ q.limit \in {0, 1} }

(* ---------------- the snapshot file ---------------- *)
\* the tag of a chunk no call has written (a hole left by a write past the end)
Hole == <<-1, -1>>
\* the tag of a file left in /tmp by an earlier run of the server
Old == <<0, 0>>
Absent == [exists |-> FALSE, data |-> <<>>]
Whole(tag) == [exists |-> TRUE, data |-> [i \in 1..NChunks |-> tag]]

\* the file holds one download, all of it
Intact(f) ==
    /\ f.exists
    /\ Len(f.data) = NChunks
    /\ \A i \in 1..NChunks : f.data[i] = f.data[1] /\ f.data[i] # Hole
\* the file has the length of a download and no hole
FullLength(f) ==
    /\ f.exists
    /\ Len(f.data) = NChunks
    /\ \A i \in 1..NChunks : f.data[i] # Hole

\* a write of one chunk at position i of a file opened earlier
WriteAt(data, i, tag) ==
    IF i <= Len(data)
    THEN [data EXCEPT ![i] = tag]
    ELSE [j \in 1..i |-> IF j <= Len(data) THEN data[j]
                         ELSE IF j = i THEN tag ELSE Hole]

VARIABLES
    clock,      \* time.time()
    file,       \* DB_CACHE_FILE on disk
    lft,        \* last_fetch_time of each worker
    pc,         \* where each worker's handler stands
    now,        \* current_time of the worker's get_db call
    off,        \* chunks the worker's open file has written
    dl,         \* downloads the worker's get_db call has attempted
    path,       \* how the call got its handle: "hit", "fresh", "stale"
    resp,       \* the response the last step sent, NoResp if it sent none
    fetchedAt,  \* history: current_time of each worker's last completed fetch
    coldStart   \* history: the server started with no snapshot file

vars == <<clock, file, lft, pc, now, off, dl, path, resp, fetchedAt, coldStart>>

NoResp ==
    [req |-> NoReq, status |-> 0, rows |-> -1, conn |-> "none", path |-> "none",
     dl |-> 0, body |-> FALSE, detail |-> ""]

Init ==
    /\ clock = StartTime
    /\ file \in {Absent, Whole(Old)}
    /\ coldStart = ~file.exists
    /\ lft = [w \in Worker |-> 0]
    /\ fetchedAt = [w \in Worker |-> 0]
    /\ pc = [w \in Worker |-> "idle"]
    /\ now = [w \in Worker |-> 0]
    /\ off = [w \in Worker |-> 0]
    /\ dl = [w \in Worker |-> 0]
    /\ path = [w \in Worker |-> "none"]
    /\ resp = NoResp

(* ---------------- the environment ---------------- *)
Tick ==
    /\ clock + TickLen <= EndTime
    /\ clock' = clock + TickLen
    /\ resp' = NoResp
    /\ UNCHANGED <<file, lft, pc, now, off, dl, path, fetchedAt, coldStart>>

(* ---------------- requests answered without get_db ---------------- *)
\* the worker returns to its event loop with nothing in hand
Release(w) ==
    /\ pc' = [pc EXCEPT ![w] = "idle"]
    /\ now' = [now EXCEPT ![w] = 0]
    /\ off' = [off EXCEPT ![w] = 0]
    /\ dl' = [dl EXCEPT ![w] = 0]
    /\ path' = [path EXCEPT ![w] = "none"]

\* a limit outside the declared bound: 422 from the validation, no handler
\* runs; the server sends no body in answer to a HEAD
Reject(w, Q) ==
    /\ pc[w] = "idle"
    /\ \E q \in Q :
        /\ WellFormed(q)
        /\ ~InRange(q.route, q.limit)
        /\ resp' = [NoResp EXCEPT !.req = q, !.status = 422,
                                  !.body = (q.method # "HEAD")]
    /\ UNCHANGED <<clock, file, lft, pc, now, off, dl, path, fetchedAt, coldStart>>

\* if request.method == "HEAD": return Response()
HeadOnly(w, Q) ==
    /\ pc[w] = "idle"
    /\ \E q \in Q :
        /\ Accepted(q)
        /\ q.method = "HEAD"
        /\ resp' = [NoResp EXCEPT !.req = q, !.status = 200]
    /\ UNCHANGED <<clock, file, lft, pc, now, off, dl, path, fetchedAt, coldStart>>

\* GET / and GET /health
Static(w, Q) ==
    /\ pc[w] = "idle"
    /\ \E q \in Q :
        /\ Accepted(q)
        /\ q.method = "GET"
        /\ q.route \notin DbRoutes
        /\ resp' = [NoResp EXCEPT !.req = q, !.status = 200, !.body = TRUE]
    /\ UNCHANGED <<clock, file, lft, pc, now, off, dl, path, fetchedAt, coldStart>>

(* ---------------- get_db ---------------- *)
(* get_db reads nothing of the request, and the handlers read its          *)
(* parameters first in their SELECT: the model draws the parameters of the *)
(* request a worker is handling where the handler reads them, in QueryOK,  *)
(* QueryCrash and FetchError, among the requests Q that the validation     *)
(* accepts.                                                                *)

\* a GET handler calls get_db: current_time = time.time()
Enter(w, Q) ==
    /\ pc[w] = "idle"
    /\ \E q \in Q : CallsDb(q)
    /\ now' = [now EXCEPT ![w] = clock]
    /\ pc' = [pc EXCEPT ![w] = "check"]
    /\ resp' = NoResp
    /\ UNCHANGED <<clock, file, lft, off, dl, path, fetchedAt, coldStart>>

Fresh_Inclusive(t, last) == (t - last) <= CACHE_DURATION

\* (current_time - last_fetch_time) < CACHE_DURATION
Fresh(t, last) == (t - last) < CACHE_DURATION

\* os.path.exists(DB_CACHE_FILE) and the cache is recent
UseCache(w) == file.exists /\ Fresh(now[w], lft[w])

CheckCache(w) ==
    /\ pc[w] = "check"
    /\ pc' = [pc EXCEPT ![w] = IF UseCache(w) THEN "hit" ELSE "fetch"]
    /\ resp' = NoResp
    /\ UNCHANGED <<clock, file, lft, now, off, dl, path, fetchedAt, coldStart>>

\* return sqlite3.connect(DB_CACHE_FILE) on the cached file
ConnectCached(w) ==
    /\ pc[w] = "hit"
    /\ pc' = [pc EXCEPT ![w] = "query"]
    /\ path' = [path EXCEPT ![w] = "hit"]
    /\ resp' = NoResp
    /\ UNCHANGED <<clock, file, lft, now, off, dl, fetchedAt, coldStart>>

\* requests.get(..., timeout=15) and raise_for_status() succeed
FetchOK(w) ==
    /\ pc[w] = "fetch"
    /\ dl' = [dl EXCEPT ![w] = @ + 1]
    /\ pc' = [pc EXCEPT ![w] = "open"]
    /\ resp' = NoResp
    /\ UNCHANGED <<clock, file, lft, now, off, path, fetchedAt, coldStart>>

\* requests.get raises a RequestException: network error, bad status, timeout
FetchFail(w) ==
    /\ pc[w] = "fetch"
    /\ dl' = [dl EXCEPT ![w] = @ + 1]
    /\ pc' = [pc EXCEPT ![w] = "except"]
    /\ resp' = NoResp
    /\ UNCHANGED <<clock, file, lft, now, off, path, fetchedAt, coldStart>>

\* open(DB_CACHE_FILE, 'wb'): the file is created or emptied
OpenCache(w) ==
    /\ pc[w] = "open"
    /\ file' = [exists |-> TRUE, data |-> <<>>]
    /\ off' = [off EXCEPT ![w] = 0]
    /\ pc' = [pc EXCEPT ![w] = "write"]
    /\ resp' = NoResp
    /\ UNCHANGED <<clock, lft, now, dl, path, fetchedAt, coldStart>>

\* f.write(response.content), one chunk; the last one closes the file
WriteChunk(w) ==
    /\ pc[w] = "write"
    /\ file' = [file EXCEPT !.data = WriteAt(@, off[w] + 1, <<w, now[w]>>)]
    /\ off' = [off EXCEPT ![w] = @ + 1]
    /\ pc' = [pc EXCEPT ![w] = IF off[w] + 1 = NChunks THEN "stamp" ELSE "write"]
    /\ resp' = NoResp
    /\ UNCHANGED <<clock, lft, now, dl, path, fetchedAt, coldStart>>

StampedTime_Stale(w) == lft[w]

StampedTime_Clock(w) == clock

\* the value of last_fetch_time = current_time
StampedTime(w) == now[w]

\* last_fetch_time = current_time; return sqlite3.connect(DB_CACHE_FILE)
Stamp(w) ==
    /\ pc[w] = "stamp"
    /\ lft' = [lft EXCEPT ![w] = StampedTime(w)]
    /\ fetchedAt' = [fetchedAt EXCEPT ![w] = now[w]]
    /\ path' = [path EXCEPT ![w] = "fresh"]
    /\ pc' = [pc EXCEPT ![w] = "query"]
    /\ resp' = NoResp
    /\ UNCHANGED <<clock, file, now, off, dl, coldStart>>

HaveFallback_Always == TRUE

\* os.path.exists(DB_CACHE_FILE) in the except branch
HaveFallback == file.exists

\* the download failed and the cache exists: return sqlite3.connect(DB_CACHE_FILE)
Fallback(w) ==
    /\ pc[w] = "except"
    /\ HaveFallback
    /\ path' = [path EXCEPT ![w] = "stale"]
    /\ pc' = [pc EXCEPT ![w] = "query"]
    /\ resp' = NoResp
    /\ UNCHANGED <<clock, file, lft, now, off, dl, fetchedAt, coldStart>>

\* the download failed and there is no cache: HTTPException(status_code=500)
FetchError(w, Q) ==
    /\ pc[w] = "except"
    /\ ~HaveFallback
    /\ \E q \in Q :
        /\ CallsDb(q)
        /\ resp' = [NoResp EXCEPT !.req = q, !.status = 500, !.body = TRUE,
                                  !.dl = dl[w],
                                  !.detail = "Failed to fetch database"]
    /\ Release(w)
    /\ UNCHANGED <<clock, file, lft, fetchedAt, coldStart>>

(* ---------------- the handlers' queries ---------------- *)
Min(a, b) == IF a <= b THEN a ELSE b

\* rows the handler's SELECT returns from an intact snapshot
Results(q) ==
    CASE q.route = "by_source" -> Min(q.limit, RowsOf(q.source))
      [] q.route \in {"articles", "latest"} -> Min(q.limit, TotalRows)
      [] q.route = "sources" -> Cardinality({s \in SourceInputs : RowsOf(s) > 0})
      [] OTHER -> 1

NoResults_Never(q, rows) == FALSE

\* if not results: of get_articles_by_source
NoResults(q, rows) == q.route = "by_source" /\ rows = 0

\* cursor.execute ... conn.close() and the handler's return or 404
QueryOK(w, Q) ==
    /\ pc[w] = "query"
    /\ FullLength(file)
    /\ \E q \in Q :
        /\ CallsDb(q)
        /\ LET rows == Results(q) IN
            resp' = [req |-> q,
                     status |-> IF NoResults(q, rows) THEN 404 ELSE 200,
                     rows |-> rows, conn |-> "closed", path |-> path[w],
                     dl |-> dl[w], body |-> TRUE,
                     detail |-> IF NoResults(q, rows) THEN q.source ELSE ""]
    /\ Release(w)
    /\ UNCHANGED <<clock, file, lft, fetchedAt, coldStart>>

\* cursor.execute raises on a file that is not one whole database: the
\* exception leaves the handler before conn.close(), the server answers 500
QueryCrash(w, Q) ==
    /\ pc[w] = "query"
    /\ ~Intact(file)
    /\ \E q \in Q :
        /\ CallsDb(q)
        /\ resp' = [NoResp EXCEPT !.req = q, !.status = 500, !.conn = "open",
                                  !.path = path[w], !.dl = dl[w], !.body = TRUE,
                                  !.detail = "Internal Server Error"]
    /\ Release(w)
    /\ UNCHANGED <<clock, file, lft, fetchedAt, coldStart>>

\* a request reaches an idle worker
Arrive(w, Q) ==
    \/ Reject(w, Q)
    \/ HeadOnly(w, Q)
    \/ Static(w, Q)
    \/ Enter(w, Q)

\* the steps of a handler that has called get_db, on a file that is whole
\* when the handler reads it
Run(w, Q) ==
    \/ CheckCache(w)
    \/ ConnectCached(w)
    \/ FetchOK(w)
    \/ FetchFail(w)
    \/ OpenCache(w)
    \/ WriteChunk(w)
    \/ Stamp(w)
    \/ Fallback(w)
    \/ FetchError(w, Q)
    \/ QueryOK(w, Q)

Serve(w, Q) == Arrive(w, Q) \/ Run(w, Q)

Step(w, Q) == Serve(w, Q) \/ QueryCrash(w, Q)

\* the workers side by side, each on the requests of Probes
Next == Tick \/ \E w \in Worker : Step(w, Probes)

Spec == Init /\ [][Next]_vars

\* a handler that has started runs on to its response: nothing in it waits
\* for another worker, and requests.get returns or raises within its timeout
FairSpec ==
    Spec /\ \A w \in Worker : WF_vars(Run(w, Probes) \/ QueryCrash(w, Probes))

\* one worker on every request; alone, it never reads the file while it is
\* being written, and QueryCrash is never enabled
HttpNext == Tick \/ Serve(1, Requests)

HttpSpec == Init /\ [][HttpNext]_vars

(* ======================= the claims ======================= *)

Started(w) == pc[w] \notin {"idle", "check"}

\* C1: in a worker that has fetched nothing yet, a get_db call goes to the
\* download and never to the cached path, it downloads exactly once, and its
\* query runs only after the download is written and stamped; a later call
\* of that worker that starts less than CACHE_DURATION after that fetch
\* downloads nothing.
C1_FirstFetchThenCached ==
    /\ \A w \in Worker :
        /\ dl[w] <= 1
        /\ (fetchedAt[w] = 0 /\ Started(w)) => (pc[w] # "hit" /\ path[w] # "hit")
        /\ pc[w] \in {"open", "write", "stamp", "except"} => dl[w] = 1
        /\ (pc[w] = "query" /\ path[w] = "fresh") =>
              (dl[w] = 1 /\ off[w] = NChunks /\ fetchedAt[w] = now[w])
        /\ (/\ fetchedAt[w] # 0
            /\ Started(w)
            /\ path[w] # "fresh"
            /\ now[w] - fetchedAt[w] < CACHE_DURATION)
              => (dl[w] = 0 /\ pc[w] \in {"hit", "query"})
    /\ resp.path = "fresh" => resp.dl = 1
    /\ resp.path = "hit" => resp.dl = 0

\* a server started without a snapshot file has fetched once, and a later
\* request of the same worker, inside the window, is at its query
C1_Witness ==
    /\ coldStart
    /\ \E w \in Worker :
        /\ pc[w] = "query" /\ path[w] = "hit" /\ dl[w] = 0
        /\ fetchedAt[w] # 0 /\ now[w] > fetchedAt[w]

\* C2: a get_db call goes to the download exactly when the snapshot file is
\* absent or current_time - last_fetch_time >= CACHE_DURATION; otherwise it
\* returns the existing file with no download, and that path leaves
\* last_fetch_time and the file as they were.
C2_DownloadIffStale ==
    [][\A w \in Worker :
        /\ (pc[w] = "check" /\ pc'[w] # "check") =>
              /\ pc'[w] \in {"hit", "fetch"}
              /\ pc'[w] = "fetch" <=>
                    (~file.exists \/ now[w] - lft[w] >= CACHE_DURATION)
              /\ file' = file /\ lft' = lft /\ dl'[w] = 0
        /\ (pc[w] = "hit" /\ pc'[w] # "hit") =>
              /\ pc'[w] = "query" /\ path'[w] = "hit"
              /\ file' = file /\ lft' = lft /\ dl'[w] = 0
        /\ dl'[w] > dl[w] => pc[w] = "fetch"
      ]_vars

\* a call took the cached path on a file an earlier call of its worker fetched
C2_Witness ==
    \E w \in Worker : pc[w] = "query" /\ path[w] = "hit" /\ lft[w] # 0

\* C3: a request whose download failed and that fell back to the existing
\* snapshot file is served: it does not end in a server error.
C3_StaleFallbackServes ==
    resp.path = "stale" => resp.status < 500

\* C4: when the download has failed and no snapshot file exists, the call
\* ends in a 500 response with no query run and no handle opened, the file
\* still absent and last_fetch_time as it was; and a request that has started
\* its download does not stay pending: it reaches its response.
C4_NoCacheFails ==
    /\ [][\A w \in Worker :
            (pc[w] = "except" /\ ~file.exists /\ pc'[w] # "except") =>
                /\ resp'.status = 500 /\ resp'.rows = -1 /\ resp'.conn = "none"
                /\ resp'.path = "none"
                /\ file' = file /\ lft' = lft
                /\ pc'[w] = "idle"
        ]_vars
    /\ \A w \in Worker : (pc[w] = "fetch") ~> (pc[w] = "idle")

\* a request ended in the 500 of get_db, with no file on disk
C4_Witness ==
    /\ resp.status = 500 /\ resp.detail = "Failed to fetch database"
    /\ resp.dl = 1 /\ ~file.exists

\* C5: no call takes the cached path and opens the snapshot file while
\* another call is between its open(..., 'wb') and the end of its write.
C5_NoReadDuringOverwrite ==
    [][\A w \in Worker :
        (pc[w] = "hit" /\ pc'[w] = "query") =>
            \A v \in Worker \ {w} : pc[v] # "write"
      ]_vars

\* C6: once calls that each downloaded and wrote have all finished, the
\* snapshot file is the download of one call, and last_fetch_time of that
\* call's worker is that call's time.
C6_LastWriterWins ==
    ((\A w \in Worker : pc[w] = "idle") /\ (\E w \in Worker : fetchedAt[w] # 0))
        => \E w \in Worker : file = Whole(<<w, lft[w]>>)

OutOfBound(q) ==
    \/ q.route = "articles" /\ (q.limit < 1 \/ q.limit > 1000)
    \/ q.route = "latest" /\ (q.limit < 1 \/ q.limit > 100)
    \/ q.route = "by_source" /\ (q.limit < 1 \/ q.limit > 500)

\* C7: a request to /articles, /articles/latest or /articles/by-source whose
\* limit is outside 1..1000, 1..100 or 1..500 is answered 422 by a step that
\* calls no get_db: no download, no handle, no query, every worker where it
\* was, last_fetch_time and the file unchanged.
C7_LimitRejectedBeforeDb ==
    /\ [](OutOfBound(resp.req) =>
            /\ resp.status = 422
            /\ resp.path = "none" /\ resp.dl = 0
            /\ resp.conn = "none" /\ resp.rows = -1)
    /\ [][OutOfBound(resp'.req) =>
            (lft' = lft /\ file' = file /\ pc' = pc /\ dl' = dl)]_vars

\* limit=501 on the by-source route was rejected
C7_Witness ==
    /\ resp.status = 422
    /\ resp.req.route = "by_source" /\ resp.req.limit = 501

\* C8: a HEAD request answered right after a GET request to the same route
\* with the same parameters, the GET having left the cache as it found it,
\* has the status of that GET.
C8_HeadMirrorsGet ==
    [][(/\ resp.req.method = "GET"
        /\ resp.path # "fresh"
        /\ resp'.req.method = "HEAD"
        /\ resp'.req.route = resp.req.route
        /\ resp'.req.limit = resp.req.limit
        /\ resp'.req.source = resp.req.source
        /\ file' = file /\ lft' = lft /\ clock' = clock)
          => (resp'.status = resp.status /\ ~resp'.body)
      ]_vars

\* C9: a GET on the by-source route whose SELECT returned no row is answered
\* 404 naming the requested source, its handle closed.
C9_EmptySourceIs404 ==
    (resp.req.route = "by_source" /\ resp.req.method = "GET" /\ resp.rows = 0)
        => (resp.status = 404 /\ resp.detail = resp.req.source
            /\ resp.conn = "closed")

\* the by-source request for a source with no row was answered
C9_Witness ==
    /\ resp.status = 404 /\ resp.req.route = "by_source"
    /\ resp.req.source = "cnn" /\ resp.req.limit = 101 /\ resp.rows = 0

\* C10: last_fetch_time of a worker changes only in the step that follows
\* its call's successful download and completed write, the new value is the
\* call's current_time, taken before the download, and it is larger than
\* the old one.
C10_StampOnlyAfterWrite ==
    [][\A w \in Worker :
        /\ lft'[w] >= lft[w]
        /\ lft'[w] # lft[w] =>
              /\ pc[w] = "stamp" /\ dl[w] = 1 /\ off[w] = NChunks
              /\ lft'[w] = now[w] /\ now[w] <= clock
      ]_vars

\* a worker stamped a fetch whose call started after the clock had advanced
\* by a whole freshness window
C10_Witness ==
    \E w \in Worker :
        /\ pc[w] = "query" /\ path[w] = "fresh"
        /\ lft[w] = now[w] /\ lft[w] >= StartTime + CACHE_DURATION

====
